---- MODULE Spec2Model ----
(***************************************************************************)
(* EMI calculator (src/src/App.js): the React component's state, its three *)
(* input-change handlers, validateInputs and calculateEMI.                 *)
(*                                                                         *)
(* Text is modelled as a sequence of one-character strings.  JavaScript    *)
(* numbers are modelled as non-negative fixed-point numbers with FracLimbs *)
(* base-10^4 fractional limbs, stored as little-endian limb sequences      *)
(* without leading zero limbs; every operation rounds down to that         *)
(* precision where the double operation rounds to nearest.                 *)
(***************************************************************************)
EXTENDS Integers, Sequences, FiniteSets, TLC

\* ------------------------------------------------------------ arithmetic

\* Radix of one limb.
Base == 10 ^ 4

\* Number of fractional limbs of a fixed-point number (precision Base^-FracLimbs).
FracLimbs == 3

Max(a, b) == IF a >= b THEN a ELSE b

Limb(a, i) == IF i >= 1 /\ i <= Len(a) THEN a[i] ELSE 0

RECURSIVE Norm(_)
\* Drops the most significant zero limbs.
Norm(a) ==
  IF a = <<>> THEN <<>>
  ELSE IF a[Len(a)] = 0 THEN Norm(SubSeq(a, 1, Len(a) - 1))
  ELSE a

RECURSIVE CarryFrom(_, _)
\* Propagates carries through a sequence of non-negative column values.
CarryFrom(s, c) ==
  IF s = <<>>
    THEN IF c = 0 THEN <<>> ELSE <<c % Base>> \o CarryFrom(<<>>, c \div Base)
    ELSE LET v == Head(s) + c
         IN  <<v % Base>> \o CarryFrom(Tail(s), v \div Base)

\* The natural number n as limbs.
FromInt(n) == CarryFrom(<<n>>, 0)

RECURSIVE ToInt(_)
\* The value of a limb sequence (only for values that fit an integer).
ToInt(a) == IF a = <<>> THEN 0 ELSE Head(a) + Base * ToInt(Tail(a))

BigAdd(a, b) ==
  Norm(CarryFrom([i \in 1..Max(Len(a), Len(b)) |-> Limb(a, i) + Limb(b, i)], 0))

RECURSIVE CmpFrom(_, _, _)
\* Compares a and b from limb i downwards: -1, 0 or 1.
CmpFrom(a, b, i) ==
  IF i = 0 THEN 0
  ELSE IF Limb(a, i) < Limb(b, i) THEN -1
  ELSE IF Limb(a, i) > Limb(b, i) THEN 1
  ELSE CmpFrom(a, b, i - 1)

BigCmp(a, b) == CmpFrom(a, b, Max(Len(a), Len(b)))

BigLeq(a, b) == BigCmp(a, b) <= 0

RECURSIVE BorrowFrom(_, _, _, _)
\* Limbs i.. of a - b - borrow, for a >= b.
BorrowFrom(a, b, i, borrow) ==
  IF i > Len(a) THEN <<>>
  ELSE LET v == Limb(a, i) - Limb(b, i) - borrow
       IN  IF v < 0 THEN <<v + Base>> \o BorrowFrom(a, b, i + 1, 1)
           ELSE <<v>> \o BorrowFrom(a, b, i + 1, 0)

\* a - b for a >= b.
BigSub(a, b) == Norm(BorrowFrom(a, b, 1, 0))

RECURSIVE ColumnSum(_, _, _, _)
\* Sum of a[i] * b[k + 1 - i] for i in lo..hi.
ColumnSum(a, b, k, i) ==
  IF i > Len(a) \/ i > k THEN 0
  ELSE Limb(a, i) * Limb(b, k + 1 - i) + ColumnSum(a, b, k, i + 1)

BigMul(a, b) ==
  IF a = <<>> \/ b = <<>> THEN <<>>
  ELSE Norm(CarryFrom([k \in 1..(Len(a) + Len(b) - 1) |-> ColumnSum(a, b, k, 1)], 0))

\* a * Base^n.
ShiftLeft(a, n) == IF a = <<>> THEN <<>> ELSE [i \in 1..n |-> 0] \o a

\* floor(a / Base^n).
ShiftRight(a, n) == IF Len(a) <= n THEN <<>> ELSE SubSeq(a, n + 1, Len(a))

RECURSIVE DivSmallFrom(_, _, _, _)
\* Long division of limbs i..1 of a by the integer k, with the remainder so far.
DivSmallFrom(a, k, i, rem) ==
  IF i = 0 THEN <<>>
  ELSE LET v == rem * Base + a[i]
       IN  DivSmallFrom(a, k, i - 1, v % k) \o <<v \div k>>

\* floor(a / k) for an integer k with 0 < k and k * Base within the integers.
BigDivSmall(a, k) == Norm(DivSmallFrom(a, k, Len(a), 0))

RECURSIVE QuotDigit(_, _, _, _)
\* The largest q in lo..hi with b * q <= rem (b * lo <= rem is given).
QuotDigit(b, rem, lo, hi) ==
  IF lo = hi THEN lo
  ELSE LET mid == (lo + hi + 1) \div 2
       IN  IF BigLeq(BigMul(b, FromInt(mid)), rem)
             THEN QuotDigit(b, rem, mid, hi)
             ELSE QuotDigit(b, rem, lo, mid - 1)

RECURSIVE DivFrom(_, _, _, _)
\* Long division of limbs i..1 of a by b (b > 0), with the remainder so far.
DivFrom(a, b, i, rem) ==
  IF i = 0 THEN <<>>
  ELSE LET cur == Norm(<<a[i]>> \o rem)
           q   == QuotDigit(b, cur, 0, Base - 1)
       IN  DivFrom(a, b, i - 1, BigSub(cur, BigMul(b, FromInt(q)))) \o <<q>>

\* floor(a / b) for b > 0.
BigDiv(a, b) == Norm(DivFrom(a, b, Len(a), <<>>))

\* Fixed-point numbers: the value x is the natural number floor(x * Base^FracLimbs).
FxOfInt(n) == ShiftLeft(FromInt(n), FracLimbs)

FxOne == FxOfInt(1)

FxMul(x, y) == ShiftRight(BigMul(x, y), FracLimbs)

FxDiv(x, y) == BigDiv(ShiftLeft(x, FracLimbs), y)

\* mant / 10^scale as a fixed-point number.
FxOfDecimal(mant, scale) == BigDivSmall(FxOfInt(mant), 10 ^ scale)

RECURSIVE FxPow(_, _)
\* Math.pow(x, n) for an integer n >= 0, by repeated squaring.
FxPow(x, n) ==
  IF n = 0 THEN FxOne
  ELSE LET h == FxPow(x, n \div 2)
           s == FxMul(h, h)
       IN  IF n % 2 = 1 THEN FxMul(s, x) ELSE s

\* ------------------------------------------------------------------ text

Digits == {"0", "1", "2", "3", "4", "5", "6", "7", "8", "9"}

DigitVal(c) ==
  CASE c = "0" -> 0 [] c = "1" -> 1 [] c = "2" -> 2 [] c = "3" -> 3 [] c = "4" -> 4
    [] c = "5" -> 5 [] c = "6" -> 6 [] c = "7" -> 7 [] c = "8" -> 8 [] c = "9" -> 9

AllDigits(s) == \A i \in 1..Len(s) : s[i] \in Digits

\* /^\d+$/.test(s)
DigitsOnly(s) == Len(s) >= 1 /\ AllDigits(s)

\* /^\d*\.?\d{0,2}$/.test(s): digits, an optional dot, at most two digits.
RatePattern(s) ==
  \E i \in 0..Len(s) : \E j \in i..Len(s) :
    /\ AllDigits(SubSeq(s, 1, i))
    /\ j = i \/ (j = i + 1 /\ s[j] = ".")
    /\ Len(s) - j <= 2
    /\ AllDigits(SubSeq(s, j + 1, Len(s)))

RECURSIVE DigitRunEnd(_, _)
\* The last index of the run of digits of s that starts at index i (i - 1 if none).
DigitRunEnd(s, i) ==
  IF i <= Len(s) /\ s[i] \in Digits THEN DigitRunEnd(s, i + 1) ELSE i - 1

RECURSIVE DecimalValue(_, _, _)
\* The number written by the digits s[lo..hi].
DecimalValue(s, lo, hi) ==
  IF hi < lo THEN 0 ELSE 10 * DecimalValue(s, lo, hi - 1) + DigitVal(s[hi])

\* A JavaScript number read from text: NaN, or (-1)^neg * (int + frac / 10^scale).
NaN == [nan |-> TRUE, neg |-> FALSE, int |-> 0, frac |-> 0, scale |-> 0]

\* parseFloat(s) for text without white space, exponents or "Infinity": the longest
\* prefix [+-] digits [. digits] holding at least one digit, NaN if there is none.
ParseFloat(s) ==
  LET signed  == Len(s) >= 1 /\ s[1] \in {"-", "+"}
      start   == IF signed THEN 2 ELSE 1
      intEnd  == DigitRunEnd(s, start)
      dotted  == intEnd + 1 <= Len(s) /\ s[intEnd + 1] = "."
      fracEnd == IF dotted THEN DigitRunEnd(s, intEnd + 2) ELSE intEnd
      scale   == IF dotted THEN fracEnd - (intEnd + 1) ELSE 0
  IN  IF intEnd < start /\ scale = 0 THEN NaN
      ELSE [nan   |-> FALSE,
            neg   |-> signed /\ s[1] = "-",
            int   |-> DecimalValue(s, start, intEnd),
            frac  |-> IF scale = 0 THEN 0 ELSE DecimalValue(s, intEnd + 2, fracEnd),
            scale |-> scale]

\* parseInt(s) for digit-only text.
ParseInt(s) == DecimalValue(s, 1, Len(s))

isNaN(v) == v.nan

IsZero(v) == ~v.nan /\ v.int = 0 /\ v.frac = 0

\* v <= 0 and v < 0 (false for NaN; -0 <= 0).
LeqZero(v) == ~v.nan /\ (v.neg \/ IsZero(v))

LtZero(v) == ~v.nan /\ v.neg /\ ~IsZero(v)

\* v <= n for an integer n >= 0 (false for NaN).
LeqInt(v, n) == ~v.nan /\ (v.neg \/ v.int < n \/ (v.int = n /\ v.frac = 0))

\* The fixed-point value of a non-negative number.
FxOfNum(v) == BigAdd(FxOfInt(v.int), BigDivSmall(FxOfInt(v.frac), 10 ^ v.scale))

\* ----------------------------------------------------------------- state

VARIABLES
  loanAmount,          \* text of the principal field (App.js:12)
  annualInterestRate,  \* text of the annual rate field (App.js:13)
  loanTenure,          \* text of the tenure field (App.js:14)
  result,              \* the stored result object, or NULL (App.js:15)
  showResult,          \* whether the results section is rendered (App.js:16)
  lastOutcome,         \* what validateInputs found at the most recent Calculate press
  calcInputs           \* the three texts at the most recent successful calculation

vars == <<loanAmount, annualInterestRate, loanTenure, result, showResult,
          lastOutcome, calcInputs>>

inputs == <<loanAmount, annualInterestRate, loanTenure>>

\* The null of useState(null).
NULL == [null |-> TRUE]

\* No calculation has succeeded yet.
NoInputs == <<>>

\* ---------------------------------------------------------------- inputs

\* Longest text written over an alphabet that an event or a raw value carries.
MaxLen == 2

\* Every spelling of zero and of a lone dot, up to MaxLen characters.
Alphabet == {"0", "."}

RECURSIVE TextsUpTo(_, _)
\* All texts over chars of at most n characters.
TextsUpTo(chars, n) ==
  IF n = 0 THEN {<<>>}
  ELSE LET shorter == TextsUpTo(chars, n - 1)
       IN  shorter \cup {t \o <<c>> : t \in shorter, c \in chars}

\* The usage example of the README (500000 at 10.5 % over 60 months), and texts
\* beyond each field's limit: 8 digits, more than 100, three decimals, more than
\* 360, a sign, letters.
ExtraTexts ==
  { <<"5", "0", "0", "0", "0", "0">>,
    <<"1", "0", ".", "5">>,
    <<"6", "0">>,
    <<"1", "2", "3", "4", "5", "6", "7", "8">>,
    <<"1", "0", "0", ".", "0", "1">>,
    <<"0", ".", "1", "2", "5">>,
    <<"3", "6", "1">>,
    <<"-", "1">>,
    <<"a", "b", "c">> }

\* The texts a change event may carry: the handlers are taken for any event text,
\* also one longer than the maxLength attribute of its input element.
Texts == TextsUpTo(Alphabet, MaxLen) \cup ExtraTexts

\* Raw values handed to validateInputs as a function of three texts.
RawAlphabet == {"0", "-", "a"}

RawExtraTexts ==
  { <<"1">>, <<".">>, <<"1", ".", "5">>, <<"-", "1", "0", "0">>, <<"a", "b", "c">> }

RawTexts == TextsUpTo(RawAlphabet, MaxLen) \cup RawExtraTexts

\* ------------------------------------------------------------ operations

\* handleLoanAmountChange with the length limit off by one.
handleLoanAmountChange_Len8(value) ==
  /\ loanAmount' = IF value = <<>> \/ (DigitsOnly(value) /\ Len(value) <= 8)
                     THEN value ELSE loanAmount
  /\ UNCHANGED <<annualInterestRate, loanTenure, result, showResult, lastOutcome,
                 calcInputs>>

\* handleLoanAmountChange: digits only, at most 7 of them.
handleLoanAmountChange(value) ==
  /\ loanAmount' = IF value = <<>> \/ (DigitsOnly(value) /\ Len(value) <= 7)
                     THEN value ELSE loanAmount
  /\ UNCHANGED <<annualInterestRate, loanTenure, result, showResult, lastOutcome,
                 calcInputs>>

\* handleInterestRateChange without the parseFloat(value) <= 100 test.
handleInterestRateChange_PatternOnly(value) ==
  /\ annualInterestRate' =
       IF value = <<>> \/ RatePattern(value) THEN value ELSE annualInterestRate
  /\ UNCHANGED <<loanAmount, loanTenure, result, showResult, lastOutcome, calcInputs>>

\* handleInterestRateChange: at most 100, at most two decimals.
handleInterestRateChange(value) ==
  /\ annualInterestRate' =
       IF value = <<>> \/ (LeqInt(ParseFloat(value), 100) /\ RatePattern(value))
         THEN value ELSE annualInterestRate
  /\ UNCHANGED <<loanAmount, loanTenure, result, showResult, lastOutcome, calcInputs>>

\* handleLoanTenureChange that also hides the result on every edit.
handleLoanTenureChange_Hides(value) ==
  /\ loanTenure' = IF value = <<>> \/ (DigitsOnly(value) /\ ParseInt(value) <= 360)
                     THEN value ELSE loanTenure
  /\ showResult' = FALSE
  /\ UNCHANGED <<loanAmount, annualInterestRate, result, lastOutcome, calcInputs>>

\* handleLoanTenureChange: digits only, at most 360.
handleLoanTenureChange(value) ==
  /\ loanTenure' = IF value = <<>> \/ (DigitsOnly(value) /\ ParseInt(value) <= 360)
                     THEN value ELSE loanTenure
  /\ UNCHANGED <<loanAmount, annualInterestRate, result, showResult, lastOutcome,
                 calcInputs>>

\* validateInputs with the numeric test ahead of the empty test.
validateInputs_NumericFirst(amount, rateText, tenureText) ==
  LET principal == ParseFloat(amount)
      rate      == ParseFloat(rateText)
      tenure    == ParseFloat(tenureText)
  IN  IF isNaN(principal) \/ isNaN(rate) \/ isNaN(tenure) THEN "NotNumeric"
      ELSE IF amount = <<>> \/ rateText = <<>> \/ tenureText = <<>> THEN "MissingField"
      ELSE IF LeqZero(principal) \/ LeqZero(rate) \/ LeqZero(tenure) THEN "NonPositive"
      ELSE "Valid"

\* validateInputs: the alert it raises, or "Valid" when it returns true.
validateInputs(amount, rateText, tenureText) ==
  IF amount = <<>> \/ rateText = <<>> \/ tenureText = <<>> THEN "MissingField"
  ELSE LET principal == ParseFloat(amount)
           rate      == ParseFloat(rateText)
           tenure    == ParseFloat(tenureText)
       IN  IF isNaN(principal) \/ isNaN(rate) \/ isNaN(tenure) THEN "NotNumeric"
           ELSE IF LeqZero(principal) \/ LeqZero(rate) \/ LeqZero(tenure)
             THEN "NonPositive"
           ELSE "Valid"

\* The annual rate used as the monthly one: the division by 12 left out.
MonthlyRate_Annual(annualRate) == BigDivSmall(annualRate, 100)

\* R = annualRate / 12 / 100.
MonthlyRate(annualRate) == BigDivSmall(BigDivSmall(annualRate, 12), 100)

\* emi = P * R * (1 + R)^N / ((1 + R)^N - 1), for R > 0 and a whole N >= 1.
StandardEMI(P, R, N) ==
  LET numerator   == FxMul(FxMul(P, R), FxPow(BigAdd(FxOne, R), N))
      denominator == BigSub(FxPow(BigAdd(FxOne, R), N), FxOne)
  IN  FxDiv(numerator, denominator)

\* The total payment over a year instead of over the tenure.
TotalPayment_Year(emi, N) == BigMul(emi, FromInt(12))

\* totalPayment = emi * N.
TotalPayment(emi, N) == BigMul(emi, FromInt(N))

\* The object calculateEMI stores for validated inputs (tenure a whole number).
computeResult(amount, rateText, tenureText) ==
  LET P == FxOfNum(ParseFloat(amount))
      N == ParseFloat(tenureText).int
      R == MonthlyRate(FxOfNum(ParseFloat(rateText)))
  IN  IF R = <<>>
        THEN [loanAmount    |-> P,
              monthlyEMI    |-> BigDivSmall(P, N),
              totalInterest |-> <<>>,
              totalPayment  |-> P]
        ELSE LET emi          == StandardEMI(P, R, N)
                 totalPayment == TotalPayment(emi, N)
             IN  [loanAmount    |-> P,
                  monthlyEMI    |-> emi,
                  totalInterest |-> BigSub(totalPayment, P),
                  totalPayment  |-> totalPayment]

\* calculateEMI without setShowResult(false) on a validation failure.
calculateEMI_NoHide ==
  LET outcome == validateInputs(loanAmount, annualInterestRate, loanTenure)
  IN  /\ lastOutcome' = outcome
      /\ showResult' = IF outcome = "Valid" THEN TRUE ELSE showResult
      /\ result' = IF outcome = "Valid"
                     THEN computeResult(loanAmount, annualInterestRate, loanTenure)
                     ELSE result
      /\ calcInputs' = IF outcome = "Valid" THEN inputs ELSE calcInputs
      /\ UNCHANGED <<loanAmount, annualInterestRate, loanTenure>>

\* calculateEMI: the Calculate button's click handler.
calculateEMI ==
  LET outcome == validateInputs(loanAmount, annualInterestRate, loanTenure)
  IN  /\ lastOutcome' = outcome
      /\ showResult' = (outcome = "Valid")
      /\ result' = IF outcome = "Valid"
                     THEN computeResult(loanAmount, annualInterestRate, loanTenure)
                     ELSE result
      /\ calcInputs' = IF outcome = "Valid" THEN inputs ELSE calcInputs
      /\ UNCHANGED <<loanAmount, annualInterestRate, loanTenure>>

\* The component constructed with the results section already shown.
Init_Shown ==
  /\ loanAmount = <<>>
  /\ annualInterestRate = <<>>
  /\ loanTenure = <<>>
  /\ result = NULL
  /\ showResult = TRUE
  /\ lastOutcome = "NoPress"
  /\ calcInputs = NoInputs

\* The component after construction: the useState initial values.
Init ==
  /\ loanAmount = <<>>
  /\ annualInterestRate = <<>>
  /\ loanTenure = <<>>
  /\ result = NULL
  /\ showResult = FALSE
  /\ lastOutcome = "NoPress"
  /\ calcInputs = NoInputs

\* Whether the results section is rendered: {showResult && result && (...)}.
resultsRendered == showResult /\ result # NULL

Next ==
  \/ \E value \in Texts : handleLoanAmountChange(value)
  \/ \E value \in Texts : handleInterestRateChange(value)
  \/ \E value \in Texts : handleLoanTenureChange(value)
  \/ calculateEMI

Spec == Init /\ [][Next]_vars

\* validateInputs as a function of three raw texts: any triple of raw values, then
\* one call of validateInputs that records what it found.
InitRaw ==
  /\ loanAmount \in RawTexts
  /\ annualInterestRate \in RawTexts
  /\ loanTenure \in RawTexts
  /\ result = NULL
  /\ showResult = FALSE
  /\ lastOutcome = "NoPress"
  /\ calcInputs = NoInputs

validatePress ==
  /\ lastOutcome' = validateInputs(loanAmount, annualInterestRate, loanTenure)
  /\ UNCHANGED <<loanAmount, annualInterestRate, loanTenure, result, showResult,
                 calcInputs>>

NextValidate == validatePress

SpecValidate == InitRaw /\ [][NextValidate]_vars
\* ---------------------------------------------------------------- claims

amountNum == ParseFloat(loanAmount)

rateNum == ParseFloat(annualInterestRate)

tenureNum == ParseFloat(loanTenure)

Positive(v) == ~v.nan /\ ~v.neg /\ ~IsZero(v)

anyEmpty == loanAmount = <<>> \/ annualInterestRate = <<>> \/ loanTenure = <<>>

anyNaN == isNaN(amountNum) \/ isNaN(rateNum) \/ isNaN(tenureNum)

FxAbsDiff(a, b) == IF BigLeq(a, b) THEN BigSub(b, a) ELSE BigSub(a, b)

\* |x - cents / 100| <= tolCents / 100.
WithinCents(x, cents, tolCents) ==
  BigLeq(BigMul(FxAbsDiff(x, FxOfDecimal(cents, 2)), FromInt(100)), FxOfInt(tolCents))

\* x rounds to cents / 100 at two decimals: |x - cents / 100| <= 0.005.
RoundsToCents(x, cents) ==
  BigLeq(BigMul(FxAbsDiff(x, FxOfDecimal(cents, 2)), FromInt(200)), FxOne)

\* a and b agree within a relative tolerance of 1e-9.
NearRel(a, b) ==
  BigLeq(BigMul(FxAbsDiff(a, b), FromInt(10 ^ 9)), IF BigLeq(a, b) THEN b ELSE a)

\* The README's usage example: 500000 at 10.5 % over 60 months.
Scenario == << <<"5", "0", "0", "0", "0", "0">>, <<"1", "0", ".", "5">>, <<"6", "0">> >>

\* C1: a Calculate press on non-empty, numeric inputs raises NonPositive exactly
\* when principal <= 0 or rate < 0 or tenure <= 0, so rate = 0 with a positive
\* principal and tenure is not rejected.
C1_NonPositiveExactly ==
  [][(calculateEMI /\ ~anyEmpty /\ ~anyNaN)
       => (lastOutcome' = "NonPositive"
             <=> (LeqZero(amountNum) \/ LtZero(rateNum) \/ LeqZero(tenureNum)))]_vars

\* C2: a Calculate press with principal P > 0, rate 0 and a whole tenure N >= 1
\* stores and shows monthlyEMI = P / N, totalInterest = 0 and totalPayment = P.
C2_ZeroInterestResult ==
  [][(calculateEMI /\ ~anyEmpty /\ Positive(amountNum) /\ IsZero(rateNum)
        /\ ~rateNum.neg /\ Positive(tenureNum) /\ tenureNum.scale = 0)
       => /\ showResult'
          /\ result' # NULL
          /\ NearRel(BigMul(result'.monthlyEMI, FromInt(tenureNum.int)),
                     FxOfNum(amountNum))
          /\ result'.totalInterest = <<>>
          /\ result'.totalPayment = FxOfNum(amountNum)]_vars

\* C3: a Calculate press that fails validation leaves the results section hidden,
\* even when an earlier result was shown, and changes neither the three input
\* texts nor the stored result.
C3_FailureHidesResult ==
  [][(calculateEMI
        /\ validateInputs(loanAmount, annualInterestRate, loanTenure) # "Valid")
       => (~showResult' /\ inputs' = inputs /\ result' = result)]_vars

C3_Witness ==
  /\ lastOutcome \in {"MissingField", "NonPositive"}
  /\ result # NULL
  /\ ~showResult

\* C4: the results section is shown only if the most recent Calculate press passed
\* validation and a non-null result is stored; never before the first success.
C4_ShownOnlyAfterSuccess ==
  /\ showResult => result # NULL
  /\ resultsRendered => lastOutcome = "Valid"

C4_Witness == resultsRendered

\* C5: validateInputs classifies every triple of raw values in the order
\* MissingField, NotNumeric, NonPositive, valid: an empty value gives MissingField
\* whatever the others are; otherwise a value that does not parse gives NotNumeric;
\* otherwise a zero or negative principal gives NonPositive.
C5_ClassificationOrder ==
  lastOutcome # "NoPress" =>
    /\ lastOutcome \in {"MissingField", "NotNumeric", "NonPositive", "Valid"}
    /\ anyEmpty => lastOutcome = "MissingField"
    /\ (~anyEmpty /\ anyNaN) => lastOutcome = "NotNumeric"
    /\ (~anyEmpty /\ ~anyNaN /\ LeqZero(amountNum)) => lastOutcome = "NonPositive"
    /\ lastOutcome = "Valid" =>
         (~anyEmpty /\ ~anyNaN /\ Positive(amountNum) /\ ~LtZero(rateNum)
            /\ Positive(tenureNum))

C5_Witness ==
  /\ lastOutcome = "MissingField"
  /\ loanAmount = <<>>
  /\ annualInterestRate = <<"a", "b", "c">>
  /\ loanTenure = <<"0">>

\* The number of dots in s.
DotCount(s) == Cardinality({i \in 1..Len(s) : s[i] = "."})

\* A decimal text with at most two fractional digits.
TwoDecimalText(s) ==
  /\ \A i \in 1..Len(s) : s[i] \in Digits \cup {"."}
  /\ DotCount(s) <= 1
  /\ \A i \in 1..Len(s) : s[i] = "." => Len(s) - i <= 2

ZeroRateCases ==
  {c \in Texts \X Texts \X Texts :
     /\ DigitsOnly(c[1]) /\ Len(c[1]) <= 7 /\ Positive(ParseFloat(c[1]))
     /\ RatePattern(c[2]) /\ IsZero(ParseFloat(c[2]))
     /\ DigitsOnly(c[3]) /\ ParseInt(c[3]) <= 360 /\ Positive(ParseFloat(c[3]))}

\* The two identities of a result r computed from the amount and tenure texts.
Identities(r, amount, tenureText) ==
  /\ r.loanAmount = FxOfNum(ParseFloat(amount))
  /\ NearRel(r.totalPayment, BigAdd(r.loanAmount, r.totalInterest))
  /\ NearRel(r.totalPayment, BigMul(r.monthlyEMI, FromInt(ParseFloat(tenureText).int)))

\* The identities of what computeResult returns on every zero-rate input.
ZeroBranchIdentities ==
  \A c \in ZeroRateCases : Identities(computeResult(c[1], c[2], c[3]), c[1], c[3])

\* C7: every stored result satisfies totalPayment = loanAmount + totalInterest and
\* totalPayment = monthlyEMI * tenure within a relative tolerance of 1e-9, for the
\* inputs of its calculation; so does what the zero-rate branch computes.
C7_ResultIdentities ==
  /\ result # NULL => Identities(result, calcInputs[1], calcInputs[3])
  /\ ZeroBranchIdentities

C7_Witness == result # NULL /\ calcInputs = Scenario /\ ZeroRateCases # {}

C9_ChangeLeavesResult ==
  /\ [](result # NULL => result = computeResult(calcInputs[1], calcInputs[2],
                                                calcInputs[3]))
  /\ [][inputs' # inputs => (result' = result /\ showResult' = showResult)]_vars

C9_Witness == showResult /\ inputs # calcInputs /\ loanTenure = <<>>

\* C10: NotNumeric cannot be reached through the form: every non-empty field
\* parses to a number that is not negative, so a Calculate press ends in
\* MissingField, in NonPositive (and then some field is zero) or in success.
C10_NotNumericUnreachable ==
  /\ \A f \in {loanAmount, annualInterestRate, loanTenure} :
       f = <<>> \/ (~isNaN(ParseFloat(f)) /\ ~ParseFloat(f).neg)
  /\ lastOutcome \in {"NoPress", "MissingField", "NonPositive", "Valid"}
  /\ validateInputs(loanAmount, annualInterestRate, loanTenure) # "NotNumeric"
  /\ validateInputs(loanAmount, annualInterestRate, loanTenure) = "NonPositive"
       => (IsZero(amountNum) \/ IsZero(rateNum) \/ IsZero(tenureNum))

C10_Witness == lastOutcome = "NonPositive" /\ annualInterestRate = <<"0", ".">>
====
